---- MODULE Spec2Model ----
(***************************************************************************)
(* GL::StreamBuffer (src/src/common/gl/stream_buffer.cpp): the factory,    *)
(* the two naive backends and the persistent-mapped ring buffer with its   *)
(* sixteen fence slots, driven by one producer thread and an asynchronous  *)
(* GPU.                                                                    *)
(*                                                                         *)
(* A fence slot holds 0 (the null GLsync) or 1 (a sync object).  A fence   *)
(* follows the data that was committed into its block before it was        *)
(* inserted; waiting on it confirms that the GPU has consumed that data.   *)
(* Each block records the data committed into it that no fence of the      *)
(* block's own slot follows:                                               *)
(*   "none"  no such data                                                  *)
(*   "cur"   data committed during the current pass over the buffer        *)
(*   "old"   data committed during an earlier pass                         *)
(***************************************************************************)
EXTENDS Integers, Sequences, FiniteSets, TLC

VARIABLES
  life,                     \* "unborn", "live", "failed", "panic", "crashed", "destroyed"
  backend,                  \* "none", "storage", "data", "subdata"
  GLAD_GL_VERSION_4_4,      \* capability surface of the GL context
  GLAD_GL_ARB_buffer_storage,
  GLAD_GL_EXT_buffer_storage,
  gl_buffers,               \* GL buffer objects generated and not yet deleted
  create_log,               \* the backend Create calls so far: [ctor, driver, result] in order
  m_size,
  m_bytes_per_block,
  m_position,
  m_used_block_index,
  m_available_block_index,
  m_sync_objects,           \* slot -> 0 (null) or 1 (a fence)
  m_coherent,
  mapping,                  \* the MappingResult of the outstanding Map, with its arguments
  gpu_idle,                 \* the GPU has retired everything submitted so far
  block_data,               \* block -> the data in it that no fence follows (see above)
  waits,                    \* the fence waits of the last Map: <<slot, what the slot held>> in order
  inserted,                 \* the slots the last Map put a fence into
  pass_inserted,            \* the slots that got a fence since the cursor was last at 0
  wrapped,                  \* the last Map took the wrap-around branch
  has_wrapped,              \* some Map has taken the wrap-around branch
  last_unmap,               \* the last Unmap: [offset, used_size, gl]
  oob,                      \* the last operation accessed a fence slot outside the array
  violated,                 \* the DebugAsserts the last operation violated (they abort a
                            \* debug build and are compiled out of a release build)
  dtor_reads,               \* the slot indices the destructor read
  dtor_deleted,             \* the slots whose fence the destructor deleted
  dtor_leaked,              \* the slots still holding a fence when the object was released
  round,                    \* Map calls counted by the caller's loop (scenarios only)
  m_last_throttle_time,     \* HostInterface: the time the next frame is due (u64, ns)
  m_throttle_period,        \* HostInterface: the frame period (ns)
  m_throttle_timer,         \* HostInterface: what the throttle timer reads (u64, ns)
  WIN32,                    \* the build sleeps with Sleep(ms) instead of nanosleep
  throttle_call,            \* the last Throttle call: what it read and what it did
  save_call,                \* the last SaveState call: the calls it made, what it returned
  host_steps                \* Throttle calls made so far

gl_vars == <<GLAD_GL_VERSION_4_4, GLAD_GL_ARB_buffer_storage, GLAD_GL_EXT_buffer_storage>>
obj_vars == <<m_size, m_bytes_per_block, m_position, m_used_block_index,
              m_available_block_index, m_sync_objects, m_coherent>>
ghost_vars == <<block_data, waits, inserted, pass_inserted, wrapped, has_wrapped, last_unmap, oob, violated>>
dtor_vars == <<dtor_reads, dtor_deleted, dtor_leaked>>
buffer_vars == <<life, backend, gl_vars, gl_buffers, create_log, obj_vars, mapping, gpu_idle,
                 ghost_vars, dtor_vars>>
host_vars == <<m_last_throttle_time, m_throttle_period, m_throttle_timer, WIN32,
               throttle_call, save_call, host_steps>>
caller_vars == <<round, host_vars>>
vars == <<buffer_vars, caller_vars>>

----------------------------------------------------------------------------
(* Bounds and input sets *)

NUM_SYNC_POINTS == 16

Capacities == {16, 17}

Alignments == {1, 2, 3}

(* The sizes a caller asks for, and the sizes it then commits *)
MapSizes(capacity) ==
  {n \in {0, 1, capacity \div 2, capacity - 1, capacity} : 0 <= n /\ n <= capacity}

UnmapSizes(min_size) ==
  {n \in {0, 1, min_size - 1, min_size} : 0 <= n /\ n <= min_size}

Slots == 0 .. (NUM_SYNC_POINTS - 1)

Min(a, b) == IF a < b THEN a ELSE b

NoMapping ==
  [active |-> FALSE, alignment |-> 1, min_size |-> 0,
   offset |-> 0, index_aligned |-> 0, space_aligned |-> 0]

NoUnmap == [offset |-> 0, used_size |-> 0, gl |-> "none"]

NoFences == [i \in Slots |-> 0]

NoData == [b \in Slots |-> "none"]

----------------------------------------------------------------------------
(* Common::AlignUp *)

AlignUp(value, alignment) == ((value + (alignment - 1)) \div alignment) * alignment

----------------------------------------------------------------------------
(* SyncingStreamBuffer.  The helpers work on a record r of the members the   *)
(* ring algorithm touches, plus what it did.  All quantities stay far below  *)
(* 2^31, so the unsigned additions of the source never wrap here.            *)

BytesPerBlock(size) == (size + NUM_SYNC_POINTS - 1) \div NUM_SYNC_POINTS

(* A variant that counts the block the offset lies in as already written *)
GetSyncIndexForOffset_Inclusive(offset) == offset \div m_bytes_per_block + 1

GetSyncIndexForOffset(offset) == offset \div m_bytes_per_block

Ring(position) ==
  [position |-> position, used |-> m_used_block_index, avail |-> m_available_block_index,
   sync |-> m_sync_objects, data |-> block_data, waits |-> <<>>, inserted |-> {},
   pass |-> pass_inserted,
   wrapped |-> FALSE, oob |-> FALSE, violated |-> {}]

(* glFenceSync into slot r.used: the fence follows the data committed into the block *)
InsertFence(r) ==
  LET i == r.used
  IN  [r EXCEPT !.sync = IF i \in Slots THEN [r.sync EXCEPT ![i] = 1] ELSE r.sync,
                !.violated = IF i \in Slots /\ r.sync[i] # 0
                               THEN r.violated \cup {"AddSyncsForOffset: slot not empty"}
                               ELSE r.violated,
                !.oob = r.oob \/ i \notin Slots,
                !.inserted = r.inserted \cup {i},
                !.pass = r.pass \cup {i},
                !.data = IF i \in Slots
                           THEN [r.data EXCEPT ![i] = "none"]
                           ELSE r.data,
                !.used = i + 1]

(* A variant that also fences the block the offset lies in *)
RECURSIVE AddSyncsLoop_Inclusive(_, _)
AddSyncsLoop_Inclusive(r, end) ==
  IF r.used <= end THEN AddSyncsLoop_Inclusive(InsertFence(r), end) ELSE r

RECURSIVE AddSyncsLoop(_, _)
AddSyncsLoop(r, end) ==
  IF r.used < end THEN AddSyncsLoop(InsertFence(r), end) ELSE r

(* A variant that inserts at most one fence per call *)
AddSyncsForOffset_One(r, offset) ==
  IF r.used < GetSyncIndexForOffset(offset) THEN InsertFence(r) ELSE r

AddSyncsForOffset(r, offset) == AddSyncsLoop(r, GetSyncIndexForOffset(offset))

(* A variant that waits without deleting the fence *)
WaitForSync_KeepFence(r, i) ==
  [r EXCEPT !.waits = Append(r.waits, <<i, r.sync[i]>>)]

(* glClientWaitSync + glDeleteSync + sync = nullptr.  Waiting on the null    *)
(* sync object returns at once; data no fence follows stays unconfirmed.     *)
WaitForSync(r, i) ==
  [r EXCEPT !.waits = Append(r.waits, <<i, r.sync[i]>>),
            !.sync = [r.sync EXCEPT ![i] = 0]]

EnsureStep(r) ==
  LET i == r.avail
  IN  [WaitForSync(r, i) EXCEPT
         !.violated = IF r.sync[i] = 0
                        THEN r.violated \cup {"EnsureSyncsWaitedForOffset: slot empty"}
                        ELSE r.violated,
         !.avail = i + 1]

RECURSIVE EnsureLoop(_, _)
EnsureLoop(r, end) ==
  IF r.avail < end THEN EnsureLoop(EnsureStep(r), end) ELSE r

EnsureSyncsWaitedForOffset(r, offset) ==
  EnsureLoop(r, Min(GetSyncIndexForOffset(offset) + 1, NUM_SYNC_POINTS))

(* A variant that forgets to reset m_used_block_index *)
WrapAround_KeepUsed(r, size) ==
  LET tail == AddSyncsForOffset(r, m_size)
      rewound == [tail EXCEPT !.position = 0,
                              !.pass = {},
                              !.data = [b \in Slots |->
                                          IF tail.data[b] = "cur" THEN "old"
                                          ELSE tail.data[b]]]
      first == [WaitForSync(rewound, 0) EXCEPT !.avail = 1]
      rest == EnsureSyncsWaitedForOffset(first, size)
  IN  [rest EXCEPT !.wrapped = TRUE]

WrapAround(r, size) ==
  LET tail == AddSyncsForOffset(r, m_size)
      rewound == [tail EXCEPT !.position = 0,
                              !.pass = {},
                              !.data = [b \in Slots |->
                                          IF tail.data[b] = "cur" THEN "old"
                                          ELSE tail.data[b]]]
      first == [WaitForSync(rewound, 0) EXCEPT !.avail = 1]
      rest == EnsureSyncsWaitedForOffset(first, size)
  IN  [rest EXCEPT !.used = 0, !.wrapped = TRUE]

(* A variant without the wrap-around branch *)
AllocateSpace_NoWrap(r, size) ==
  EnsureSyncsWaitedForOffset(AddSyncsForOffset(r, r.position), r.position + size)

AllocateSpace(r, size) ==
  LET added == AddSyncsForOffset(r, r.position)
      waited == EnsureSyncsWaitedForOffset(added, r.position + size)
  IN  IF r.position + size > m_size THEN WrapAround(waited, size) ELSE waited

----------------------------------------------------------------------------
(* Construction *)

(* A variant that takes the buffer-storage surface for granted *)
HasBufferStorage_Assumed == TRUE

HasBufferStorage ==
  GLAD_GL_VERSION_4_4 \/ GLAD_GL_ARB_buffer_storage \/ GLAD_GL_EXT_buffer_storage

(* A variant that starts with no block available *)
Construct_NoneAvailable(kind, size, coherent) ==
  /\ backend' = kind
  /\ m_size' = size
  /\ m_bytes_per_block' = BytesPerBlock(size)
  /\ m_position' = 0
  /\ m_used_block_index' = 0
  /\ m_available_block_index' = 0
  /\ m_sync_objects' = NoFences
  /\ m_coherent' = coherent

(* The members as the constructors leave them. *)
Construct(kind, size, coherent) ==
  /\ backend' = kind
  /\ m_size' = size
  /\ m_bytes_per_block' = BytesPerBlock(size)
  /\ m_position' = 0
  /\ m_used_block_index' = 0
  /\ m_available_block_index' = NUM_SYNC_POINTS
  /\ m_sync_objects' = NoFences
  /\ m_coherent' = coherent

(* BufferStorageStreamBuffer::Create: "ok", "null" (returns {}) or "panic"   *)
(* (Assert(mapped_ptr) fails), with the buffer objects it leaves behind and  *)
(* what the driver answered.                                                 *)
BufferStorageCreate(storage_err, map_null) ==
  LET storage_call == IF GLAD_GL_VERSION_4_4 \/ GLAD_GL_ARB_buffer_storage
                        THEN "glBufferStorage"
                        ELSE IF GLAD_GL_EXT_buffer_storage THEN "glBufferStorageEXT"
                        ELSE "none"
      err == storage_err /\ storage_call # "none"
  IN  IF err THEN [outcome |-> "null", buffers |-> 0, driver |-> "storage rejected"]
      ELSE IF map_null THEN [outcome |-> "panic", buffers |-> 1, driver |-> "mapping rejected"]
      ELSE [outcome |-> "ok", buffers |-> 1, driver |-> "accepted"]

(* BufferDataStreamBuffer::Create and BufferSubDataStreamBuffer::Create *)
NaiveCreate(data_err) ==
  IF data_err THEN [outcome |-> "null", buffers |-> 0, driver |-> "allocation rejected"]
  ELSE [outcome |-> "ok", buffers |-> 1, driver |-> "accepted"]

Called(ctor, made) == [ctor |-> ctor, driver |-> made.driver, result |-> made.outcome]

StreamBufferCreate(size, storage_err, map_null, data_err) ==
  /\ life = "unborn"
  /\ LET try_storage == HasBufferStorage
         st == BufferStorageCreate(storage_err, map_null)
         dt == NaiveCreate(data_err)
     IN  IF try_storage /\ st.outcome = "ok"
           THEN /\ life' = "live"
                /\ Construct("storage", size, TRUE)
                /\ gl_buffers' = gl_buffers + st.buffers
                /\ create_log' = <<Called("BufferStorageStreamBuffer", st)>>
         ELSE IF try_storage /\ st.outcome = "panic"
           THEN /\ life' = "panic"
                /\ gl_buffers' = gl_buffers + st.buffers
                /\ create_log' = <<Called("BufferStorageStreamBuffer", st)>>
                /\ UNCHANGED <<backend, obj_vars>>
         ELSE /\ gl_buffers' = gl_buffers + (IF try_storage THEN st.buffers ELSE 0) + dt.buffers
              /\ create_log' = (IF try_storage
                                   THEN <<Called("BufferStorageStreamBuffer", st)>>
                                   ELSE <<>>)
                                 \o <<Called("BufferDataStreamBuffer", dt)>>
              /\ IF dt.outcome = "ok"
                   THEN life' = "live" /\ Construct("data", size, TRUE)
                   ELSE life' = "failed" /\ UNCHANGED <<backend, obj_vars>>
  /\ UNCHANGED <<gl_vars, mapping, gpu_idle, ghost_vars, dtor_vars>>

BufferSubDataCreate(size, data_err) ==
  /\ life = "unborn"
  /\ LET dt == NaiveCreate(data_err)
     IN  /\ gl_buffers' = gl_buffers + dt.buffers
         /\ create_log' = <<Called("BufferSubDataStreamBuffer", dt)>>
         /\ IF dt.outcome = "ok"
              THEN life' = "live" /\ Construct("subdata", size, TRUE)
              ELSE life' = "failed" /\ UNCHANGED <<backend, obj_vars>>
  /\ UNCHANGED <<gl_vars, mapping, gpu_idle, ghost_vars, dtor_vars>>

----------------------------------------------------------------------------
(* Map *)

(* A variant that reports the capacity in bytes *)
NaiveMap_Bytes(alignment, min_size) ==
  /\ life = "live"
  /\ backend \in {"data", "subdata"}
  /\ ~mapping.active
  /\ mapping' = [active |-> TRUE, alignment |-> alignment, min_size |-> min_size,
                 offset |-> 0, index_aligned |-> 0, space_aligned |-> m_size]
  /\ waits' = <<>>
  /\ inserted' = {}
  /\ wrapped' = FALSE
  /\ last_unmap' = NoUnmap
  /\ oob' = FALSE
  /\ violated' = {}
  /\ UNCHANGED <<life, backend, gl_vars, gl_buffers, create_log, obj_vars, gpu_idle,
                 block_data, pass_inserted, has_wrapped, dtor_vars>>

NaiveMap(alignment, min_size) ==
  /\ life = "live"
  /\ backend \in {"data", "subdata"}
  /\ ~mapping.active
  /\ mapping' = [active |-> TRUE, alignment |-> alignment, min_size |-> min_size,
                 offset |-> 0, index_aligned |-> 0, space_aligned |-> m_size \div alignment]
  /\ waits' = <<>>
  /\ inserted' = {}
  /\ wrapped' = FALSE
  /\ last_unmap' = NoUnmap
  /\ oob' = FALSE
  /\ violated' = {}
  /\ UNCHANGED <<life, backend, gl_vars, gl_buffers, create_log, obj_vars, gpu_idle,
                 block_data, pass_inserted, has_wrapped, dtor_vars>>

(* BufferStorageStreamBuffer::Map.  A fence store past the array is          *)
(* undefined: the call either ends the process or goes on, the store having  *)
(* landed outside the sixteen slots.  A violated DebugAssert aborts a debug  *)
(* build; a release build carries on.                                        *)
StorageMap(alignment, min_size) ==
  /\ life = "live"
  /\ backend = "storage"
  /\ ~mapping.active
  /\ \E r \in {AllocateSpace(Ring(IF m_position > 0 THEN AlignUp(m_position, alignment)
                                                     ELSE m_position),
                             min_size)} :
       LET free_space_in_block == r.avail * m_bytes_per_block - r.position
       IN  /\ m_position' = r.position
           /\ m_used_block_index' = r.used
           /\ m_available_block_index' = r.avail
           /\ m_sync_objects' = r.sync
           /\ mapping' = [active |-> TRUE, alignment |-> alignment, min_size |-> min_size,
                          offset |-> r.position, index_aligned |-> r.position \div alignment,
                          space_aligned |-> free_space_in_block \div alignment]
           /\ gpu_idle' = (IF r.inserted # {} THEN FALSE ELSE gpu_idle)
           /\ block_data' = r.data
           /\ last_unmap' = NoUnmap
           /\ waits' = r.waits
           /\ inserted' = r.inserted
           /\ pass_inserted' = r.pass
           /\ wrapped' = r.wrapped
           /\ has_wrapped' = (has_wrapped \/ r.wrapped)
           /\ oob' = r.oob
           /\ violated' = IF r.position + min_size > r.avail * m_bytes_per_block
                            THEN r.violated \cup {"Map: allocation exceeds the available blocks"}
                            ELSE r.violated
           /\ \/ life' = life
              \/ r.oob /\ life' = "crashed"
              \/ violated' # {} /\ life' = "panic"
  /\ UNCHANGED <<backend, gl_vars, gl_buffers, create_log, m_size, m_bytes_per_block,
                 m_coherent, dtor_vars>>

Map(alignment, min_size) ==
  \/ NaiveMap(alignment, min_size)
  \/ StorageMap(alignment, min_size)

----------------------------------------------------------------------------
(* Unmap *)

NaiveUnmap(used_size) ==
  /\ life = "live"
  /\ backend \in {"data", "subdata"}
  /\ mapping.active
  /\ mapping' = NoMapping
  /\ last_unmap' = [offset |-> 0, used_size |-> used_size,
                    gl |-> IF used_size = 0 THEN "none"
                           ELSE IF backend = "data" THEN "glBufferData"
                           ELSE "glBufferSubData"]
  /\ gpu_idle' = (IF used_size = 0 THEN gpu_idle ELSE FALSE)
  /\ oob' = FALSE
  /\ violated' = {}
  /\ waits' = <<>>
  /\ inserted' = {}
  /\ wrapped' = FALSE
  /\ UNCHANGED <<life, backend, gl_vars, gl_buffers, create_log, obj_vars, block_data,
                 pass_inserted, has_wrapped, dtor_vars>>

(* The blocks that hold bytes of [offset, offset + size) *)
BlocksOf(offset, size) ==
  IF size = 0 THEN {}
  ELSE {b \in Slots : /\ b * m_bytes_per_block < offset + size
                      /\ (b + 1) * m_bytes_per_block > offset}

(* A variant that rounds the committed size up to whole blocks *)
Commit_WholeBlocks(position, used_size) ==
  position + AlignUp(used_size, m_bytes_per_block)

(* m_position += used_size *)
Commit(position, used_size) == position + used_size

StorageUnmap(used_size) ==
  /\ life = "live"
  /\ backend = "storage"
  /\ mapping.active
  /\ mapping' = NoMapping
  /\ m_position' = Commit(m_position, used_size)
  /\ last_unmap' = [offset |-> m_position, used_size |-> used_size,
                    gl |-> IF m_coherent THEN "none" ELSE "glFlushMappedBufferRange"]
  /\ block_data' = [b \in Slots |-> IF b \in BlocksOf(m_position, used_size)
                                      THEN "cur" ELSE block_data[b]]
  /\ gpu_idle' = (IF used_size = 0 THEN gpu_idle ELSE FALSE)
  /\ oob' = FALSE
  /\ violated' = IF m_position + used_size > m_size
                   THEN {"Unmap: position past the buffer end"} ELSE {}
  /\ waits' = <<>>
  /\ inserted' = {}
  /\ wrapped' = FALSE
  /\ UNCHANGED <<life, backend, gl_vars, gl_buffers, create_log, m_size, m_bytes_per_block,
                 m_used_block_index, m_available_block_index, m_sync_objects, m_coherent,
                 pass_inserted, has_wrapped, dtor_vars>>

Unmap(used_size) ==
  \/ NaiveUnmap(used_size)
  \/ StorageUnmap(used_size)

----------------------------------------------------------------------------
(* The GPU retires everything submitted so far: every fence is signalled. *)

(* A GPU that never retires the work submitted to it *)
GpuComplete_Stalled ==
  /\ life = "live"
  /\ ~gpu_idle
  /\ UNCHANGED <<life, backend, gl_vars, gl_buffers, create_log, obj_vars, mapping, gpu_idle,
                 ghost_vars, dtor_vars>>

GpuComplete ==
  /\ life = "live"
  /\ ~gpu_idle
  /\ gpu_idle' = TRUE
  /\ UNCHANGED <<life, backend, gl_vars, gl_buffers, create_log, obj_vars, mapping,
                 ghost_vars, dtor_vars>>

----------------------------------------------------------------------------
(* Destruction: ~BufferStorageStreamBuffer, ~SyncingStreamBuffer,            *)
(* ~StreamBuffer.  Afterwards the object's memory is gone.                   *)

(* ~SyncingStreamBuffer: the slot indices its loop visits *)
DestructorRange ==
  IF backend = "storage"
    THEN {i \in 0 .. NUM_SYNC_POINTS :
            m_available_block_index <= i /\ i <= m_used_block_index}
    ELSE {}

Destroy ==
  /\ life = "live"
  /\ \E visited \in {DestructorRange} :
       /\ dtor_reads' = visited
       /\ dtor_deleted' = {i \in visited \cap Slots : m_sync_objects[i] # 0}
       /\ dtor_leaked' = {i \in Slots : m_sync_objects[i] # 0 /\ i \notin visited}
       /\ violated' = IF \E i \in visited \cap Slots : m_sync_objects[i] = 0
                        THEN {"~SyncingStreamBuffer: slot empty"} ELSE {}
       /\ oob' = (\E i \in visited : i \notin Slots)
       /\ \/ life' = "destroyed"
          \/ (\E i \in visited : i \notin Slots) /\ life' = "crashed"
          \/ violated' # {} /\ life' = "panic"
  /\ gl_buffers' = gl_buffers - 1
  /\ m_position' = 0
  /\ m_used_block_index' = 0
  /\ m_available_block_index' = NUM_SYNC_POINTS
  /\ m_sync_objects' = NoFences
  /\ mapping' = NoMapping
  /\ block_data' = NoData
  /\ waits' = <<>>
  /\ inserted' = {}
  /\ pass_inserted' = {}
  /\ wrapped' = FALSE
  /\ has_wrapped' = FALSE
  /\ last_unmap' = NoUnmap
  /\ UNCHANGED <<backend, gl_vars, create_log, m_size, m_bytes_per_block, m_coherent,
                 gpu_idle>>

----------------------------------------------------------------------------
(* HostInterface: 64-bit words.  A u64 is four 16-bit limbs, least           *)
(* significant first, so that m_last_throttle_time - time wraps modulo 2^64  *)
(* exactly as the unsigned subtraction of the code does; an s64 is the same  *)
(* word read in two's complement.                                            *)

Limb == 65536

U64(n) == <<n % Limb, (n \div Limb) % Limb, 0, 0>>

Add64(x, y) ==
  LET s1 == x[1] + y[1]
      s2 == x[2] + y[2] + (s1 \div Limb)
      s3 == x[3] + y[3] + (s2 \div Limb)
      s4 == x[4] + y[4] + (s3 \div Limb)
  IN  <<s1 % Limb, s2 % Limb, s3 % Limb, s4 % Limb>>

Neg64(x) == Add64(<<Limb - 1 - x[1], Limb - 1 - x[2], Limb - 1 - x[3], Limb - 1 - x[4]>>, U64(1))

Sub64(x, y) == Add64(x, Neg64(y))

(* x < y as unsigned words *)
Less64(x, y) ==
  \E i \in 1 .. 4 : x[i] < y[i] /\ \A j \in (i + 1) .. 4 : x[j] = y[j]

(* static_cast<s64>: the sign of the word *)
IsNegative(x) == x[4] >= Limb \div 2

(* x <= y as signed words *)
SignedLessEq(x, y) ==
  IF IsNegative(x) # IsNegative(y) THEN IsNegative(x) ELSE x = y \/ Less64(x, y)

INT64_MIN == <<0, 0, 0, Limb \div 2>>

INT64_MAX == <<Limb - 1, Limb - 1, Limb - 1, Limb \div 2 - 1>>

(* A non-negative s64 below 2^31 as a number *)
ToNat(x) == x[1] + x[2] * Limb

(* A variant of std::abs that returns its argument *)
StdAbs_Identity(x) == {x}

(* std::abs(s64): the results a build can produce.  The negation of         *)
(* INT64_MIN overflows, which is undefined: the wrapped value or a           *)
(* saturated one.                                                            *)
StdAbs(x) ==
  IF x = INT64_MIN THEN {INT64_MIN, INT64_MAX}
  ELSE IF IsNegative(x) THEN {Neg64(x)} ELSE {x}

MAX_VARIANCE_TIME == 40000000

MINIMUM_SLEEP_TIME == 1000000

NoThrottle ==
  [ran |-> FALSE, last |-> U64(0), time |-> U64(0), reset |-> FALSE, slept |-> 0]

NoSave ==
  [ran |-> FALSE, opened |-> FALSE, result |-> FALSE, calls |-> <<>>, returned |-> FALSE]

(* HostInterface::HostInterface: the raw timer value, a timer that starts   *)
(* now, and the settings the object runs with                                *)
(* A sixtieth of a second *)
DefaultThrottlePeriod == 1000000000 \div 60

HostInterface(raw, period, windows) ==
  /\ m_last_throttle_time = raw
  /\ m_throttle_timer = U64(0)
  /\ m_throttle_period = period
  /\ WIN32 = windows
  /\ throttle_call = NoThrottle
  /\ save_call = NoSave
  /\ host_steps = 0

(* HostInterface::Throttle, called when the timer has advanced by elapsed   *)
(* nanoseconds since the host last looked at it; a sleep advances the timer  *)
(* by the time slept                                                         *)
Throttle(elapsed) ==
  \E time \in {Add64(m_throttle_timer, U64(elapsed))} :
  \E sleep_time \in {Sub64(m_last_throttle_time, time)} :
  \E magnitude \in StdAbs(sleep_time) :
    IF SignedLessEq(U64(MAX_VARIANCE_TIME), magnitude)
    THEN /\ m_last_throttle_time' = Add64(U64(0), U64(m_throttle_period))
         /\ m_throttle_timer' = U64(0)
         /\ throttle_call' = [ran |-> TRUE, last |-> m_last_throttle_time, time |-> time,
                              reset |-> TRUE, slept |-> 0]
    ELSE /\ m_last_throttle_time' = Add64(m_last_throttle_time, U64(m_throttle_period))
         /\ IF /\ SignedLessEq(U64(MINIMUM_SLEEP_TIME), sleep_time)
               /\ SignedLessEq(sleep_time, U64(m_throttle_period))
            THEN \E slept \in {IF WIN32 THEN (ToNat(sleep_time) \div 1000000) * 1000000
                                        ELSE ToNat(sleep_time)} :
                   /\ m_throttle_timer' = Add64(time, U64(slept))
                   /\ throttle_call' = [ran |-> TRUE, last |-> m_last_throttle_time,
                                        time |-> time, reset |-> FALSE, slept |-> slept]
            ELSE /\ m_throttle_timer' = time
                 /\ throttle_call' = [ran |-> TRUE, last |-> m_last_throttle_time,
                                      time |-> time, reset |-> FALSE, slept |-> 0]

(* A variant of the stream calls that commits whatever the system returned *)
SaveStateCalls_AlwaysCommit(opened, result) ==
  IF ~opened THEN <<>> ELSE <<"SaveState", "Commit", "Release">>

(* The calls HostInterface::SaveState makes once ByteStream_OpenFileStream  *)
(* has returned opened, the system's SaveState returning result              *)
SaveStateCalls(opened, result) ==
  IF ~opened THEN <<>>
  ELSE IF ~result THEN <<"SaveState", "ReportError", "Discard", "Release">>
  ELSE <<"SaveState", "AddOSDMessage", "Commit", "Release">>

(* HostInterface::SaveState *)
SaveState(opened, result) ==
  save_call' = [ran |-> TRUE, opened |-> opened, result |-> result,
                calls |-> SaveStateCalls(opened, result),
                returned |-> IF opened THEN result ELSE FALSE]

(* HostInterface::UpdateSpeedLimiterState: the part that restarts the pacing *)
UpdateSpeedLimiterState ==
  /\ m_throttle_timer' = U64(0)
  /\ m_last_throttle_time' = U64(0)
  /\ throttle_call' = NoThrottle

----------------------------------------------------------------------------
(* The system: a GL context, one stream buffer, its caller and the GPU *)

InitObject ==
  /\ life = "unborn"
  /\ backend = "none"
  /\ gl_buffers = 0
  /\ create_log = <<>>
  /\ m_size = 0
  /\ m_bytes_per_block = 0
  /\ m_position = 0
  /\ m_used_block_index = 0
  /\ m_available_block_index = NUM_SYNC_POINTS
  /\ m_sync_objects = NoFences
  /\ m_coherent = TRUE
  /\ mapping = NoMapping
  /\ gpu_idle = TRUE
  /\ block_data = NoData
  /\ waits = <<>>
  /\ inserted = {}
  /\ pass_inserted = {}
  /\ wrapped = FALSE
  /\ has_wrapped = FALSE
  /\ last_unmap = NoUnmap
  /\ oob = FALSE
  /\ violated = {}
  /\ dtor_reads = {}
  /\ dtor_deleted = {}
  /\ dtor_leaked = {}
  /\ round = 0

(* A context with the whole buffer-storage surface (GL 4.4) or with none of it *)
Init ==
  /\ \E has \in BOOLEAN :
       /\ GLAD_GL_VERSION_4_4 = has
       /\ GLAD_GL_ARB_buffer_storage = has
       /\ GLAD_GL_EXT_buffer_storage = has
  /\ InitObject
  /\ HostInterface(U64(0), DefaultThrottlePeriod, FALSE)

Next ==
  \/ \E size \in Capacities, storage_err \in BOOLEAN, map_null \in BOOLEAN,
       data_err \in BOOLEAN :
       StreamBufferCreate(size, storage_err, map_null, data_err) /\ UNCHANGED caller_vars
  \/ \E size \in Capacities, data_err \in BOOLEAN :
       BufferSubDataCreate(size, data_err) /\ UNCHANGED caller_vars
  \/ \E alignment \in Alignments, min_size \in MapSizes(m_size) :
       Map(alignment, min_size) /\ UNCHANGED caller_vars
  \/ \E used_size \in UnmapSizes(mapping.min_size) : Unmap(used_size) /\ UNCHANGED caller_vars
  \/ GpuComplete /\ UNCHANGED caller_vars
  \/ Destroy /\ UNCHANGED caller_vars

Spec == Init /\ [][Next]_vars

----------------------------------------------------------------------------
(* The factory under every capability surface, each backend driven by a few  *)
(* Map/Unmap calls                                                           *)

InitFactory ==
  /\ GLAD_GL_VERSION_4_4 \in BOOLEAN
  /\ GLAD_GL_ARB_buffer_storage \in BOOLEAN
  /\ GLAD_GL_EXT_buffer_storage \in BOOLEAN
  /\ InitObject
  /\ HostInterface(U64(0), DefaultThrottlePeriod, FALSE)

NextFactory ==
  \/ \E size \in Capacities, storage_err \in BOOLEAN, map_null \in BOOLEAN,
       data_err \in BOOLEAN :
       StreamBufferCreate(size, storage_err, map_null, data_err) /\ UNCHANGED caller_vars
  \/ \E size \in Capacities, data_err \in BOOLEAN :
       BufferSubDataCreate(size, data_err) /\ UNCHANGED caller_vars
  \/ \E alignment \in Alignments, min_size \in {0, 1, m_size} :
       Map(alignment, min_size) /\ UNCHANGED caller_vars
  \/ \E used_size \in {0, mapping.min_size} : Unmap(used_size) /\ UNCHANGED caller_vars
  \/ GpuComplete /\ UNCHANGED caller_vars
  \/ Destroy /\ UNCHANGED caller_vars

SpecFactory == InitFactory /\ [][NextFactory]_vars

----------------------------------------------------------------------------
(* The caller's streaming loop on a buffer of sixteen blocks of B bytes:     *)
(* Map(16, B) then Unmap(B), over and over, the GPU retiring work at any     *)
(* time.  B is a multiple of the alignment, as in the 1 MiB buffer with      *)
(* B = 65536.                                                                *)

ScenarioRounds == 40

ScenarioBlockBytes == {16, 4096, 65536}

InitScenario ==
  /\ GLAD_GL_VERSION_4_4 = TRUE
  /\ GLAD_GL_ARB_buffer_storage = TRUE
  /\ GLAD_GL_EXT_buffer_storage = TRUE
  /\ InitObject
  /\ HostInterface(U64(0), DefaultThrottlePeriod, FALSE)

NextScenario ==
  \/ \E B \in ScenarioBlockBytes :
       StreamBufferCreate(NUM_SYNC_POINTS * B, FALSE, FALSE, FALSE) /\ UNCHANGED caller_vars
  \/ round < ScenarioRounds /\ Map(16, m_bytes_per_block) /\ round' = round + 1 /\ UNCHANGED host_vars
  \/ Unmap(mapping.min_size) /\ UNCHANGED caller_vars
  \/ GpuComplete /\ UNCHANGED caller_vars

SpecScenario == InitScenario /\ [][NextScenario]_vars

----------------------------------------------------------------------------
(* The caller with the blocking of glClientWaitSync made visible.  Map makes *)
(* its fence waits one after the other; a wait on a held fence returns only  *)
(* once the GPU has signalled it, so the Map has not returned to its caller  *)
(* while the GPU still has work in flight.  The GPU is fair: it eventually   *)
(* retires what was submitted (GL_TIMEOUT_IGNORED waits for exactly that).   *)

BlockingCapacities == {16, 32}

(* The caller is still inside Map, in glClientWaitSync *)
MapBlocked ==
  /\ life = "live"
  /\ backend = "storage"
  /\ mapping.active
  /\ ~gpu_idle
  /\ \E k \in 1 .. Len(waits) : waits[k][2] = 1

NextBlocking ==
  \/ \E size \in BlockingCapacities :
       StreamBufferCreate(size, FALSE, FALSE, FALSE) /\ UNCHANGED caller_vars
  \/ \E alignment \in Alignments, min_size \in MapSizes(m_size) :
       Map(alignment, min_size) /\ UNCHANGED caller_vars
  \/ ~MapBlocked /\ \E used_size \in UnmapSizes(mapping.min_size) :
                       Unmap(used_size) /\ UNCHANGED caller_vars
  \/ GpuComplete /\ UNCHANGED caller_vars
  \/ ~MapBlocked /\ Destroy /\ UNCHANGED caller_vars

SpecBlocking ==
  InitScenario /\ [][NextBlocking]_vars /\ WF_vars(GpuComplete /\ UNCHANGED caller_vars)

----------------------------------------------------------------------------
(* The host: frames of any length between two Throttle calls, a state saved  *)
(* now and then, the speed limiter state updated now and then.  No stream    *)
(* buffer is involved.                                                       *)

MaxHostSteps == 4

(* The frame periods of the 60 Hz and the 50 Hz machine *)
ThrottlePeriods == {1000000000 \div 60, 1000000000 \div 50}

(* What Y_TimerGetValue returned at construction: nothing, just below and   *)
(* at the variance limit, and an hour of 2^32 ns ticks.  A difference of     *)
(* 2^63 ns, the one argument std::abs is undefined for, is 292 years away    *)
(* from every value a timer holds.                                           *)
RawTimerValues ==
  {U64(0), U64(MAX_VARIANCE_TIME - 1), U64(MAX_VARIANCE_TIME), <<0, 0, 838, 0>>}

(* Nanoseconds between two looks at the throttle timer: around the sleep    *)
(* threshold and around the variance limit of a frame that is due in one     *)
(* period                                                                    *)
ElapsedTimes(period) ==
  {0, period - MINIMUM_SLEEP_TIME, period - MINIMUM_SLEEP_TIME + 1, period + 1,
   period + MAX_VARIANCE_TIME - 1, period + MAX_VARIANCE_TIME}

InitHost ==
  /\ GLAD_GL_VERSION_4_4 = TRUE
  /\ GLAD_GL_ARB_buffer_storage = TRUE
  /\ GLAD_GL_EXT_buffer_storage = TRUE
  /\ InitObject
  /\ \E raw \in RawTimerValues, period \in ThrottlePeriods, windows \in BOOLEAN :
       HostInterface(raw, period, windows)

NextHost ==
  \/ /\ host_steps < MaxHostSteps
     /\ \E elapsed \in ElapsedTimes(m_throttle_period) : Throttle(elapsed)
     /\ host_steps' = host_steps + 1
     /\ UNCHANGED <<buffer_vars, round, m_throttle_period, WIN32, save_call>>
  \/ /\ \E opened \in BOOLEAN, result \in BOOLEAN : SaveState(opened, result)
     /\ UNCHANGED <<buffer_vars, round, m_last_throttle_time, m_throttle_period,
                    m_throttle_timer, WIN32, throttle_call, host_steps>>
  \/ /\ UpdateSpeedLimiterState
     /\ UNCHANGED <<buffer_vars, round, m_throttle_period, WIN32, save_call, host_steps>>

SpecHost == InitHost /\ [][NextHost]_vars

----------------------------------------------------------------------------
(* Properties *)

StorageLive == life = "live" /\ backend = "storage"

StorageMapped == StorageLive /\ mapping.active

NaiveLive == life = "live" /\ backend \in {"data", "subdata"}

(* The blocks that hold bytes of the range the outstanding Map handed out *)
HandedOut == BlocksOf(mapping.offset, mapping.space_aligned * mapping.alignment)

(* A step in which the persistent-mapped Map returns to its caller *)
StorageMapStep == StorageLive /\ ~mapping.active /\ mapping'.active /\ life' = "live"

(* A step in which Unmap returns to its caller *)
UnmapStep == life = "live" /\ mapping.active /\ ~mapping'.active /\ life' = "live"

(* C1: on the persistent-mapped backend the range a Map hands out, from the  *)
(* returned offset up to offset + count * alignment, only covers blocks      *)
(* whose earlier contents are confirmed consumed: no block of the range      *)
(* holds a fence nobody waited on, and none holds data of an earlier pass    *)
(* that was never fenced and waited.                                         *)
C1_HandedOutRangeConsumed ==
  StorageMapped =>
    \A b \in HandedOut : m_sync_objects[b] = 0 /\ block_data[b] # "old"

(* C2: destroying a persistent-mapped buffer deletes every fence a slot      *)
(* still holds and reads no slot that is empty or outside 0..15.             *)
C2_DestructorDeletesEveryFence ==
  (life \in {"destroyed", "crashed", "panic"} /\ backend = "storage") =>
    /\ dtor_leaked = {}
    /\ dtor_reads \subseteq Slots
    /\ dtor_deleted = dtor_reads

(* C3: every Map of the persistent-mapped backend returns an offset with     *)
(* offset + s <= capacity; when the alignment-adjusted cursor plus s exceeds *)
(* the capacity the cursor is reset to 0 before the region is handed out;    *)
(* the cursor is never above the capacity after a Map or an Unmap.           *)
C3_CursorStaysInside ==
  /\ [](StorageLive =>
          /\ m_position <= m_size
          /\ mapping.active =>
               /\ mapping.offset = m_position
               /\ mapping.offset + mapping.min_size <= m_size)
  /\ [][StorageMapStep =>
          LET cursor == IF m_position > 0
                          THEN AlignUp(m_position, mapping'.alignment)
                          ELSE m_position
          IN  IF cursor + mapping'.min_size > m_size
                THEN wrapped' /\ m_position' = 0 /\ mapping'.offset = 0
                ELSE ~wrapped' /\ m_position' = cursor /\ mapping'.offset = cursor]_vars

C3_Witness ==
  /\ StorageMapped
  /\ wrapped
  /\ mapping.offset = 0
  /\ mapping.alignment > 1
  /\ mapping.min_size = m_size

(* C4: for every capacity, a multiple of 16 or not, the element count a Map  *)
(* of the persistent-mapped backend reports stops at the buffer end:         *)
(* offset + count * alignment <= capacity.                                   *)
C4_CountStopsAtBufferEnd ==
  StorageMapped =>
    mapping.offset + mapping.space_aligned * mapping.alignment <= m_size

(* C5: Unmap(u) on the persistent-mapped backend advances position by        *)
(* exactly u and changes no other member: used_block_index,                  *)
(* available_block_index and every fence slot stay as they were, so          *)
(* Unmap(0) changes nothing; on the naive backends Unmap(0) issues no        *)
(* upload.                                                                   *)
C5_UnmapFrame ==
  [][UnmapStep =>
       /\ backend = "storage" =>
            /\ m_position' = m_position + last_unmap'.used_size
            /\ last_unmap'.offset = m_position
            /\ UNCHANGED <<m_used_block_index, m_available_block_index, m_sync_objects,
                           m_size, m_bytes_per_block, m_coherent, gl_buffers>>
            /\ inserted' = {} /\ waits' = <<>>
       /\ (backend # "storage" /\ last_unmap'.used_size = 0) =>
            /\ last_unmap'.gl = "none"
            /\ UNCHANGED <<obj_vars, gpu_idle, gl_buffers>>]_vars

C5_Witness ==
  /\ StorageLive
  /\ ~mapping.active
  /\ last_unmap.used_size > 0
  /\ m_position = last_unmap.offset + last_unmap.used_size
  /\ m_used_block_index > 0
  /\ \E i \in Slots : m_sync_objects[i] = 1

(* The factory's log: StreamBuffer::Create ran (BufferSubDataStreamBuffer is  *)
(* only ever created directly)                                               *)
FactoryRan == create_log # <<>> /\ create_log[1].ctor # "BufferSubDataStreamBuffer"

(* C6: where none of GL 4.4, ARB_buffer_storage and EXT_buffer_storage is    *)
(* available, StreamBuffer::Create never attempts the persistent-mapped      *)
(* backend; it returns a usable orphan (BufferData) backend whenever the     *)
(* driver accepts the plain allocation and reports failure only when the     *)
(* driver rejects it.                                                        *)
C6_FallbackWithoutBufferStorage ==
  ( /\ ~GLAD_GL_VERSION_4_4
    /\ ~GLAD_GL_ARB_buffer_storage
    /\ ~GLAD_GL_EXT_buffer_storage
    /\ FactoryRan ) =>
    /\ Len(create_log) = 1
    /\ create_log[1].ctor = "BufferDataStreamBuffer"
    /\ IF create_log[1].driver = "accepted"
         THEN /\ create_log[1].result = "ok"
              /\ backend = "data"
              /\ life \in {"live", "destroyed"}
              /\ gl_buffers = (IF life = "live" THEN 1 ELSE 0)
         ELSE /\ create_log[1].result = "null"
              /\ backend = "none"
              /\ life = "failed"
              /\ gl_buffers = 0

C6_Witness ==
  /\ ~GLAD_GL_VERSION_4_4
  /\ ~GLAD_GL_ARB_buffer_storage
  /\ ~GLAD_GL_EXT_buffer_storage
  /\ FactoryRan
  /\ NaiveLive
  /\ mapping.active
  /\ mapping.space_aligned > 0

(* C7: when the driver rejects the allocation, the storage flags or the      *)
(* mapping of the persistent-mapped backend, the factory recovers: the       *)
(* buffer object is released, no fatal error is raised, the orphan backend   *)
(* is tried next, and the caller sees a failure only if that fails too.      *)
C7_StorageFailureRecovered ==
  ( /\ FactoryRan
    /\ create_log[1].ctor = "BufferStorageStreamBuffer"
    /\ create_log[1].driver # "accepted" ) =>
    /\ life # "panic"
    /\ Len(create_log) = 2
    /\ create_log[2].ctor = "BufferDataStreamBuffer"
    /\ (life = "failed") = (create_log[2].driver # "accepted")
    /\ gl_buffers = (IF life = "live" THEN 1 ELSE 0)

(* C8: on a buffer of 16 blocks of B bytes, repeating Map(16, B)/Unmap(B)    *)
(* from construction, calls 1 to 16 neither wrap nor wait on a fence, and    *)
(* the 17th Map wraps the cursor to 0 and waits on the fence of block 0,     *)
(* the fence the 2nd Map inserted (no other call up to the 17th puts a fence *)
(* into slot 0, and slot 0 holds it from the 2nd call on).                   *)
C8_SeventeenthMapWraps ==
  (life = "live" /\ mapping.active) =>
    /\ round \in 1 .. NUM_SYNC_POINTS =>
         /\ ~wrapped
         /\ ~has_wrapped
         /\ waits = <<>>
         /\ mapping.offset = (round - 1) * m_bytes_per_block
    /\ round = 2 => inserted = {0}
    /\ round \in (1 .. NUM_SYNC_POINTS + 1) \ {2} => 0 \notin inserted
    /\ round \in 2 .. NUM_SYNC_POINTS => m_sync_objects[0] = 1
    /\ round = NUM_SYNC_POINTS + 1 =>
         /\ wrapped
         /\ mapping.offset = 0
         /\ m_position = 0
         /\ waits # <<>>
         /\ waits[1] = <<0, 1>>
         /\ m_sync_objects[0] = 0

C8_Witness ==
  /\ StorageMapped
  /\ m_size = 1048576
  /\ round = NUM_SYNC_POINTS + 1
  /\ wrapped
  /\ waits[1] = <<0, 1>>

(* A buffer no Map or Unmap has touched yet *)
Fresh ==
  /\ m_position = 0
  /\ m_used_block_index = 0
  /\ m_available_block_index = NUM_SYNC_POINTS
  /\ m_sync_objects = NoFences
  /\ ~has_wrapped

(* C9: the first Map(a, s) on a freshly constructed persistent-mapped buffer *)
(* returns offset 0 with at least s / a elements and waits on no fence; and  *)
(* no Map waits on a fence before the first wrap-around has happened.        *)
C9_NoWaitBeforeFirstWrap ==
  /\ []((StorageMapped /\ ~has_wrapped) => waits = <<>>)
  /\ [][(StorageMapStep /\ Fresh) =>
          /\ mapping'.offset = 0
          /\ mapping'.index_aligned = 0
          /\ mapping'.space_aligned >= mapping'.min_size \div mapping'.alignment
          /\ waits' = <<>>
          /\ ~wrapped']_vars

C9_Witness ==
  /\ StorageMapped
  /\ Fresh
  /\ mapping.offset = 0
  /\ mapping.min_size = m_size
  /\ mapping.alignment > 1
  /\ waits = <<>>

(* C10: on both naive backends every Map(a, s), whatever came before it,     *)
(* returns byte offset 0 and aligned offset 0 with exactly capacity / a      *)
(* elements; the backends keep no cursor or fence state between calls and    *)
(* never wait on the GPU.                                                    *)
C10_NaiveMapFromStart ==
  NaiveLive =>
    /\ m_position = 0
    /\ m_used_block_index = 0
    /\ m_available_block_index = NUM_SYNC_POINTS
    /\ m_sync_objects = NoFences
    /\ waits = <<>>
    /\ inserted = {}
    /\ ~wrapped /\ ~has_wrapped
    /\ mapping.active =>
         /\ mapping.offset = 0
         /\ mapping.index_aligned = 0
         /\ mapping.space_aligned = m_size \div mapping.alignment

C10_Witness ==
  /\ NaiveLive
  /\ mapping.active
  /\ ~gpu_idle
  /\ mapping.alignment = 3
  /\ mapping.space_aligned = m_size \div 3

(* C11, as stated: in every reachable state of a persistent-mapped buffer,  *)
(* from construction onwards, available_block_index <= used_block_index + 1. *)
C11_AvailableAtMostUsedPlusOne ==
  StorageLive => m_available_block_index <= m_used_block_index + 1

(* C11, amended: in every reachable state of a persistent-mapped buffer the  *)
(* fenced frontier is never ahead of the waited one and both stay inside the *)
(* slot array: used_block_index <= available_block_index, and                *)
(* 1 <= available_block_index <= 16.                                         *)
C11_UsedAtMostAvailable ==
  StorageLive =>
    /\ m_used_block_index <= m_available_block_index
    /\ 1 <= m_available_block_index
    /\ m_available_block_index <= NUM_SYNC_POINTS

C11_Witness ==
  /\ StorageLive
  /\ has_wrapped
  /\ 0 < m_used_block_index
  /\ m_used_block_index < m_available_block_index
  /\ m_available_block_index < NUM_SYNC_POINTS

(* C12: every fence wait a Map performs, in EnsureSyncsWaitedForOffset and   *)
(* in the wrap-around wait on block 0, targets a slot that holds a fence,    *)
(* for every capacity, a multiple of 16 or not: available_block_index never  *)
(* advances past a block whose fence was never inserted.                     *)
C12_WaitsTargetHeldFences ==
  StorageLive => \A k \in 1 .. Len(waits) : waits[k][2] = 1

(* C13: each block owns at most one outstanding fence: a fence is inserted   *)
(* only into an empty slot, and fence insertion never indexes a slot outside *)
(* 0..15.                                                                    *)
C13_FenceInsertedIntoEmptySlot ==
  (backend = "storage" /\ life \in {"live", "crashed", "panic"}) =>
    /\ "AddSyncsForOffset: slot not empty" \notin violated
    /\ inserted \subseteq Slots

(* The cursor a Map starts from: m_position, aligned up unless it is 0 *)
AlignedCursor(alignment) ==
  IF m_position > 0 THEN AlignUp(m_position, alignment) ELSE m_position

(* The blocks that hold bytes the last Unmap committed *)
Committed == BlocksOf(last_unmap.offset, last_unmap.used_size)

(* A Map of the persistent-mapped backend returning right after an Unmap(u), u > 0 *)
MapAfterCommit == StorageMapStep /\ last_unmap.used_size > 0

C15_FencedBelowCursor ==
  (StorageMapped /\ ~wrapped) =>
    /\ m_used_block_index = m_position \div m_bytes_per_block
    /\ pass_inserted = {b \in Slots : b < m_position \div m_bytes_per_block}

C15_Witness ==
  /\ StorageMapped
  /\ ~wrapped
  /\ has_wrapped
  /\ m_used_block_index > 1
  /\ m_used_block_index < NUM_SYNC_POINTS
  /\ inserted # {}

(* The slots the last Map waited on *)
Waited == {waits[k][1] : k \in 1 .. Len(waits)}

(* C16: a Map(a, s) that wraps returns with position = 0,                    *)
(* used_block_index = 0 and                                                  *)
(* available_block_index = min(floor(s / bytes_per_block) + 1, 16); every    *)
(* block in [0, available_block_index) then has an empty fence slot and      *)
(* every block in [available_block_index, 16) holds a fence.                 *)
C16_StateAfterWrap ==
  (StorageMapped /\ wrapped) =>
    /\ m_position = 0
    /\ m_used_block_index = 0
    /\ m_available_block_index =
         Min(mapping.min_size \div m_bytes_per_block + 1, NUM_SYNC_POINTS)
    /\ \A b \in Slots : (m_sync_objects[b] = 0) <=> (b < m_available_block_index)

C18_AtMostSeventeenWaits ==
  (life = "live" /\ backend = "storage") => Len(waits) <= NUM_SYNC_POINTS + 1

(* C18, amended: fence waits are the only place a Map can block: if the GPU  *)
(* eventually signals every fence that was inserted, every Map(a, s) with    *)
(* s <= capacity eventually returns, after at most 31 fence waits (up to 15  *)
(* before the wrap, the one on block 0, and up to 15 after it); Unmap makes  *)
(* no fence wait and so never blocks.                                        *)
C18_MapReturnsAfterBoundedWaits ==
  /\ []((life = "live" /\ backend = "storage") =>
          Len(waits) <= 2 * NUM_SYNC_POINTS - 1)
  /\ (MapBlocked ~> (mapping.active /\ ~MapBlocked))
  /\ [][UnmapStep => (waits' = <<>> /\ ~MapBlocked')]_vars

C18_Witness ==
  /\ MapBlocked
  /\ wrapped
  /\ Len(waits) = 2 * NUM_SYNC_POINTS - 1
  /\ \A k \in 1 .. Len(waits) : waits[k][2] = 1

----------------------------------------------------------------------------
(* HostInterface *)

(* SaveState made the call c on its stream or its system *)
SaveMade(c) == \E k \in 1 .. Len(save_call.calls) : save_call.calls[k] = c

(* C19: HostInterface::SaveState commits the stream exactly when the        *)
(* system's SaveState succeeded and discards it otherwise, releases the      *)
(* stream in both cases, last, and returns the system's result; when the     *)
(* file cannot be opened it returns false and calls neither the system's     *)
(* SaveState nor anything on a stream.  A failed save never commits.         *)
C19_SaveStateCommitsExactlyOnSuccess ==
  save_call.ran =>
    IF save_call.opened
    THEN /\ save_call.calls[1] = "SaveState"
         /\ SaveMade("Commit") <=> save_call.result
         /\ SaveMade("Discard") <=> ~save_call.result
         /\ save_call.calls[Len(save_call.calls)] = "Release"
         /\ save_call.returned = save_call.result
    ELSE /\ save_call.calls = <<>>
         /\ save_call.returned = FALSE

C19_Witness ==
  /\ save_call.ran
  /\ save_call.opened
  /\ ~save_call.result
  /\ SaveMade("Discard")
  /\ ~SaveMade("Commit")
  /\ ~save_call.returned

(* The s64 the word d stands for is nearer to zero than the variance limit *)
WithinVariance(d) ==
  Less64(d, U64(MAX_VARIANCE_TIME)) \/ Less64(Neg64(d), U64(MAX_VARIANCE_TIME))

(* The wrapping difference the last Throttle call computed *)
SleepTime == Sub64(throttle_call.last, throttle_call.time)

====
